---- MODULE Spec2Model ----
(***************************************************************************)
(* Model of the cross-correlation application: the Streamlit driver        *)
(* (src/app.py), the correlation engine (src/correlation_analyzer.py) and  *)
(* the data loader (src/data_loader.py).                                   *)
(*                                                                         *)
(* Arithmetic is exact: a stationarized value is a rational <<num, den>>,  *)
(* a correlation coefficient r is kept as <<sgn, p, q>> with                *)
(* r = sgn * sqrt(p / q) in lowest terms, so that equality and order of    *)
(* coefficients are decided without rounding.  The code computes in         *)
(* float64; the model is the arithmetic the floats approximate.            *)
(***************************************************************************)
EXTENDS Integers, Sequences, FiniteSets, TLC

(***************************************************************************)
(* Bounds of the model.                                                    *)
(***************************************************************************)
\* longest raw series handed to the engine in SpecCorr
MaxLen == 4
\* largest max_lags drawn (the slider allows 1..60)
MaxLagBound == 2
\* longest identifier list typed by the user
MaxIds == 3
\* largest max_lags handed to the engine in SpecCorr
MaxEngineLag == 3

(***************************************************************************)
(* Integer helpers.                                                        *)
(***************************************************************************)
Abs(n) == IF n < 0 THEN -n ELSE n

Sign(n) == IF n < 0 THEN -1 ELSE IF n > 0 THEN 1 ELSE 0

RECURSIVE GCD(_, _)
GCD(a, b) == IF b = 0 THEN a ELSE GCD(b, a % b)

LCM(a, b) == (a \div GCD(a, b)) * b

\* order of the fractions a/b and c/d (a, c >= 0; b, d > 0): -1, 0 or 1,
\* by the continued-fraction expansion, so that no product is formed
RECURSIVE CmpFrac(_, _, _, _)
CmpFrac(a, b, c, d) ==
    LET qa == a \div b
        qc == c \div d
        ra == a % b
        rc == c % d
    IN  IF qa # qc THEN (IF qa < qc THEN -1 ELSE 1)
        ELSE IF ra = 0 /\ rc = 0 THEN 0
        ELSE IF ra = 0 THEN -1
        ELSE IF rc = 0 THEN 1
        ELSE CmpFrac(d, rc, b, ra)

\* a sequence given as a function on 1..n, as the tuple of its values
AsTuple(f) == f \o << >>

(***************************************************************************)
(* Values of a series (pandas float64 cells).                              *)
(*   <<n, d>>, d > 0 : the rational n/d in lowest terms                    *)
(*   <<1, 0>>, <<-1, 0>> : +inf, -inf (a non-zero value divided by zero)   *)
(*   <<0, 0>> : NaN                                                        *)
(* A series is a sequence of rows <<t, value>> with t strictly increasing. *)
(***************************************************************************)
NaN == <<0, 0>>

IsNaN(v) == v[2] = 0 /\ v[1] = 0

IsInf(v) == v[2] = 0 /\ v[1] # 0

Rat(n, d) ==
    IF d = 0 THEN <<Sign(n), 0>>
    ELSE LET g == GCD(Abs(n), Abs(d))
         IN  <<Sign(d) * (n \div g), Abs(d) \div g>>

\* Series.dropna(): the rows whose value is not NaN (inf is kept)
dropna(s) == SelectSeq(s, LAMBDA row : ~IsNaN(row[2]))

\* Series.pct_change(): cur / prev - 1; the first row has no predecessor
pct_change(s) ==
    AsTuple([i \in 1..Len(s) |->
        IF i = 1 THEN <<s[i][1], NaN>>
        ELSE LET cur == s[i][2]
                 prev == s[i-1][2]
             IN  <<s[i][1], Rat(cur[1] * prev[2] - prev[1] * cur[2], prev[1] * cur[2])>>])

\* Series.diff(): cur - prev
diff(s) ==
    AsTuple([i \in 1..Len(s) |->
        IF i = 1 THEN <<s[i][1], NaN>>
        ELSE LET cur == s[i][2]
                 prev == s[i-1][2]
             IN  <<s[i][1], Rat(cur[1] * prev[2] - prev[1] * cur[2], cur[2] * prev[2])>>])

\* processed_series.abs().sum() == 0: the sum skips NaN, and a sum of
\* absolute values is zero only when every term is zero
AbsSumIsZero(s) == \A i \in 1..Len(s) : IsNaN(s[i][2]) \/ s[i][2] = <<0, 1>>

\* processed_series.isnull().all()
AllNull(s) == \A i \in 1..Len(s) : IsNaN(s[i][2])

\* a variant of the transform below that always takes the first difference
first_difference_only(series) ==
    IF Len(series) = 0 THEN << >> ELSE dropna(diff(series))

preprocess_series_for_correlation(series) ==
    IF Len(series) = 0 THEN << >>
    ELSE LET processed_series == pct_change(series)
         IN  IF AbsSumIsZero(processed_series) \/ AllNull(processed_series)
             THEN dropna(diff(series))
             ELSE dropna(processed_series)

(***************************************************************************)
(* Correlation coefficients.                                               *)
(*   <<sgn, p, q>>, q > 0 : r = sgn * sqrt(p / q), p/q in lowest terms     *)
(*   <<0, 0, 0>> : NaN (np.nan)                                            *)
(***************************************************************************)
NaNCoef == <<0, 0, 0>>

IsNaNCoef(c) == c[3] = 0

OneCoef == <<1, 1, 1>>

\* |a| < |b| for two defined coefficients
AbsLess(a, b) == CmpFrac(a[2], a[3], b[2], b[3]) < 0

RECURSIVE SumSeq(_)
SumSeq(xs) == IF Len(xs) = 0 THEN 0 ELSE Head(xs) + SumSeq(Tail(xs))

RECURSIVE LcmDen(_)
LcmDen(vs) == IF Len(vs) = 0 THEN 1 ELSE LCM(Head(vs)[2], LcmDen(Tail(vs)))

\* the finite values vs, all multiplied by their common denominator
Scaled(vs) ==
    LET L == LcmDen(vs) IN AsTuple([i \in 1..Len(vs) |-> vs[i][1] * (L \div vs[i][2])])

\* a variant of the coefficient below with the cross products not centred
corr_uncentred(xs, ys) ==
    LET n == Len(xs)
    IN  IF n = 0 THEN NaNCoef
        ELSE IF \E i \in 1..n : IsInf(xs[i]) \/ IsInf(ys[i]) THEN NaNCoef
        ELSE LET X == Scaled(xs)
                 Y == Scaled(ys)
                 sx == SumSeq(X)
                 sy == SumSeq(Y)
                 covxy == n * SumSeq(AsTuple([i \in 1..n |-> X[i] * Y[i]]))
                 ssqdm_x == n * SumSeq(AsTuple([i \in 1..n |-> X[i] * X[i]])) - sx * sx
                 ssqdm_y == n * SumSeq(AsTuple([i \in 1..n |-> Y[i] * Y[i]])) - sy * sy
             IN  IF ssqdm_x = 0 \/ ssqdm_y = 0 THEN NaNCoef
                 ELSE IF covxy = 0 THEN <<0, 0, 1>>
                 ELSE LET g == GCD(covxy * covxy, ssqdm_x * ssqdm_y)
                      IN  <<Sign(covxy), (covxy * covxy) \div g, (ssqdm_x * ssqdm_y) \div g>>

\* Series.corr(other), Pearson, min_periods = 1, on two columns of equal
\* length without NaN: covxy / sqrt(ssqdm_x * ssqdm_y), or NaN when that
\* divisor is zero (a constant column, a single row) or when an inf cell
\* makes the running mean inf and the deviations inf - inf.  The coefficient
\* does not change when a column is multiplied by a positive number, so it
\* is computed on the columns scaled to integers.
corr(xs, ys) ==
    LET n == Len(xs)
    IN  IF n = 0 THEN NaNCoef
        ELSE IF \E i \in 1..n : IsInf(xs[i]) \/ IsInf(ys[i]) THEN NaNCoef
        ELSE LET X == Scaled(xs)
                 Y == Scaled(ys)
                 sx == SumSeq(X)
                 sy == SumSeq(Y)
                 covxy == n * SumSeq(AsTuple([i \in 1..n |-> X[i] * Y[i]])) - sx * sy
                 ssqdm_x == n * SumSeq(AsTuple([i \in 1..n |-> X[i] * X[i]])) - sx * sx
                 ssqdm_y == n * SumSeq(AsTuple([i \in 1..n |-> Y[i] * Y[i]])) - sy * sy
             IN  IF ssqdm_x = 0 \/ ssqdm_y = 0 THEN NaNCoef
                 ELSE IF covxy = 0 THEN <<0, 0, 1>>
                 ELSE LET g == GCD(covxy * covxy, ssqdm_x * ssqdm_y)
                      IN  <<Sign(covxy), (covxy * covxy) \div g, (ssqdm_x * ssqdm_y) \div g>>

\* pd.DataFrame({'series1': p1, 'series2': p2}).dropna(): the timestamps of
\* both columns, in order, with both values; rows <<t, v1, v2>>
AlignedData(p1, p2) ==
    LET ValueAt(p, t) == p[CHOOSE j \in 1..Len(p) : p[j][1] = t][2]
        common == SelectSeq(p1, LAMBDA row : \E j \in 1..Len(p2) : p2[j][1] = row[1])
    IN  AsTuple([i \in 1..Len(common) |->
                    <<common[i][1], common[i][2], ValueAt(p2, common[i][1])>>])

\* a variant of the shift below with the two signs of the lag exchanged
TempDfExchanged(aligned, lag) ==
    LET n == Len(aligned)
        k == Abs(lag)
    IN  IF k >= n THEN << >>
        ELSE AsTuple([i \in 1..(n - k) |->
                IF lag >= 0 THEN <<aligned[i][2], aligned[i + k][3]>>
                ELSE <<aligned[i + k][2], aligned[i][3]>>])

\* a variant of the shift below that shifts the same column for both signs
\* of the lag
TempDfOneSided(aligned, lag) ==
    LET n == Len(aligned)
        k == Abs(lag)
    IN  IF k >= n THEN << >>
        ELSE AsTuple([i \in 1..(n - k) |-> <<aligned[i + k][2], aligned[i][3]>>])

\* temp_df of one lag: the pairs <<s1 cell, s2 cell>> left by shifting one
\* column by |lag| rows and dropping the rows the shift left without a value
\*   lag >= 0: s1[t] with s2[t - lag];  lag < 0: s1[t - |lag|] with s2[t]
TempDf(aligned, lag) ==
    LET n == Len(aligned)
        k == Abs(lag)
    IN  IF k >= n THEN << >>
        ELSE AsTuple([i \in 1..(n - k) |->
                IF lag >= 0 THEN <<aligned[i + k][2], aligned[i][3]>>
                ELSE <<aligned[i][2], aligned[i + k][3]>>])

\* np.arange(-max_lags, max_lags + 1)
LagsRange(max_lags) == AsTuple([i \in 1..(2 * max_lags + 1) |-> i - max_lags - 1])

\* a variant of the test below with the floor of two rows
TwoRowsOverlap(temp_df, max_lags) == Len(temp_df) >= 2

\* the minimum-overlap test of one lag: len(temp_df) >= max_lags
EnoughOverlap(temp_df, max_lags) == Len(temp_df) >= max_lags

\* the body of the lag loop: the coefficient appended for one lag
CorrAtLag(aligned, lag, max_lags) ==
    LET temp_df == TempDf(aligned, lag)
    IN  IF EnoughOverlap(temp_df, max_lags)
        THEN corr(AsTuple([i \in 1..Len(temp_df) |-> temp_df[i][1]]),
                  AsTuple([i \in 1..Len(temp_df) |-> temp_df[i][2]]))
        ELSE NaNCoef

\* a variant of the selection below in which NaN is not ignored: the first
\* NaN entry, if any, is the one selected (np.argmax)
argmax_abs(cc) ==
    IF \E i \in 1..Len(cc) : IsNaNCoef(cc[i])
    THEN CHOOSE i \in 1..Len(cc) :
            IsNaNCoef(cc[i]) /\ \A j \in 1..(i - 1) : ~IsNaNCoef(cc[j])
    ELSE CHOOSE i \in 1..Len(cc) : \A j \in 1..Len(cc) : ~AbsLess(cc[i], cc[j])

\* a variant of the selection below that takes the last position holding
\* the largest absolute value
nanargmax_abs_last(cc) ==
    CHOOSE i \in 1..Len(cc) :
        /\ ~IsNaNCoef(cc[i])
        /\ \A j \in 1..Len(cc) : ~IsNaNCoef(cc[j]) => ~AbsLess(cc[i], cc[j])
        /\ \A j \in (i + 1)..Len(cc) : ~IsNaNCoef(cc[j]) => AbsLess(cc[j], cc[i])

\* np.nanargmax(np.abs(cross_correlations)): the first position holding the
\* largest absolute value, NaN entries ignored (1-based here)
nanargmax_abs(cc) ==
    CHOOSE i \in 1..Len(cc) :
        /\ ~IsNaNCoef(cc[i])
        /\ \A j \in 1..Len(cc) : ~IsNaNCoef(cc[j]) => ~AbsLess(cc[i], cc[j])
        /\ \A j \in 1..(i - 1) : ~IsNaNCoef(cc[j]) => AbsLess(cc[j], cc[i])

\* a variant of the test below: some entry is NaN
AnyNaN(cc) == \E i \in 1..Len(cc) : IsNaNCoef(cc[i])

\* np.all(np.isnan(cross_correlations))
AllNaN(cc) == \A i \in 1..Len(cc) : IsNaNCoef(cc[i])

ErrInsufficient == "Dati insufficienti dopo la pre-elaborazione"

ErrNoCommon == "Nessun dato comune dopo l'allineamento iniziale"

ErrNoValid == "Impossibile calcolare correlazioni valide"

\* the value returned on failure: (None, None, None, error_message)
CorrFailure(msg) ==
    [ok |-> FALSE, lags_range |-> << >>, cross_correlations |-> << >>,
     best_lag |-> 0, max_corr_value |-> NaNCoef, error |-> msg]

\* calculate_cross_correlation(series1, series2, max_lags, label); the label
\* is not used by the computation and is left out
calculate_cross_correlation(series1, series2, max_lags) ==
    LET processed_series1 == preprocess_series_for_correlation(series1)
        processed_series2 == preprocess_series_for_correlation(series2)
        aligned_data == AlignedData(processed_series1, processed_series2)
        lags_range == LagsRange(max_lags)
        cross_correlations ==
            AsTuple([i \in 1..Len(lags_range) |->
                        CorrAtLag(aligned_data, lags_range[i], max_lags)])
    IN  IF Len(processed_series1) = 0 \/ Len(processed_series2) = 0
        THEN CorrFailure(ErrInsufficient)
        ELSE IF Len(aligned_data) = 0 THEN CorrFailure(ErrNoCommon)
        ELSE IF AllNaN(cross_correlations) THEN CorrFailure(ErrNoValid)
        ELSE LET max_corr_abs_idx == nanargmax_abs(cross_correlations)
             IN  [ok |-> TRUE, lags_range |-> lags_range,
                  cross_correlations |-> cross_correlations,
                  best_lag |-> lags_range[max_corr_abs_idx],
                  max_corr_value |-> cross_correlations[max_corr_abs_idx],
                  error |-> "None"]

(***************************************************************************)
(* Frequency labels.  A pandas frequency string is a sequence of its       *)
(* characters, so that startswith is a test of the first character; None   *)
(* is the empty sequence (infer_freq gives None, never an empty string).   *)
(***************************************************************************)
NoFreq == << >>

FreqD == <<"D">>

FreqB == <<"B">>

FreqW == <<"W", "-", "S", "U", "N">>

FreqM == <<"M">>

FreqMS == <<"M", "S">>

FreqQ == <<"Q", "-", "D", "E", "C">>

FreqA == <<"A", "-", "D", "E", "C">>

\* hourly: a label none of the prefixes matches
FreqH == <<"H">>

\* what the provider may report as the inferred frequency of a series
InferredLabels == {NoFreq, FreqD, FreqB, FreqW, FreqMS, FreqQ, FreqA, FreqH}

\* interval_options: the granularities the sidebar offers
interval_options == {<<"1", "d">>, <<"1", "w", "k">>, <<"1", "m", "o">>}

\* freq_ranking, from the finest to the coarsest
freq_ranking ==
    [k \in {<<"D">>, <<"B">>, <<"W">>, <<"M">>, <<"M", "S">>, <<"Q">>, <<"Q", "S">>,
            <<"A">>, <<"A", "S">>} |->
        CASE k \in {<<"D">>, <<"B">>} -> 0
          [] k = <<"W">> -> 1
          [] k \in {<<"M">>, <<"M", "S">>} -> 2
          [] k \in {<<"Q">>, <<"Q", "S">>} -> 3
          [] OTHER -> 4]

\* freq_ranking.get(key, default)
freq_ranking_get(key, default) ==
    IF key \in DOMAIN freq_ranking THEN freq_ranking[key] ELSE default

\* freq_label_map.get(code, "sconosciuta")
freq_label_map_get(code) ==
    CASE code = <<"D">> -> "giornaliera"
      [] code = <<"W">> -> "settimanale"
      [] code = <<"M">> -> "mensile"
      [] code = <<"Q">> -> "trimestrale"
      [] code = <<"A">> -> "annuale"
      [] OTHER -> "sconosciuta"

startswith(str, c) == Len(str) > 0 /\ str[1] = c

get_base_freq_key(freq_str) ==
    IF freq_str = NoFreq THEN NoFreq
    ELSE IF startswith(freq_str, "D") \/ startswith(freq_str, "B") THEN <<"D">>
    ELSE IF startswith(freq_str, "W") THEN <<"W">>
    ELSE IF startswith(freq_str, "M") THEN <<"M">>
    ELSE IF startswith(freq_str, "Q") THEN <<"Q">>
    ELSE IF startswith(freq_str, "A") THEN <<"A">>
    ELSE NoFreq

(***************************************************************************)
(* Raw series and resampling.  Timestamps are day numbers on a calendar    *)
(* scaled down so that the series stay short: a week is 2 days, a month    *)
(* 2 weeks, a quarter 2 months, a year 2 quarters.                         *)
(***************************************************************************)
\* "no series": the None of (series_raw, inferred_freq, error)
NoSeries == "None"

Cell(n) == <<n, 1>>

\* rows on consecutive periods from t0, one per value
RowsFrom(t0, step, vals) ==
    AsTuple([i \in 1..Len(vals) |-> <<t0 + (i - 1) * step, Cell(vals[i])>>])

\* the raw series the provider may hand back: two daily series over the
\* same days, one over later days only, and one without any row
SeriesDailyUp == RowsFrom(0, 1, <<1, 2, 1, 3, 2>>)

SeriesDailyAlt == RowsFrom(0, 1, <<2, 1, 3, 3, 1>>)

SeriesLate == RowsFrom(40, 1, <<1, 3, 2, 2>>)

SeriesEmpty == << >>

\* the driver's variables hold a raw series by its key in this catalog
RawCatalog == {"daily_up", "daily_alt", "late", "empty"}

RawRows(key) ==
    CASE key = "daily_up" -> SeriesDailyUp
      [] key = "daily_alt" -> SeriesDailyAlt
      [] key = "late" -> SeriesLate
      [] OTHER -> SeriesEmpty

\* length in days of one period of a resampling code
PeriodDays(code) ==
    CASE code \in {<<"D">>, <<"1", "d">>} -> 1
      [] code = <<"W">> -> 2
      [] code = <<"M">> -> 4
      [] code = <<"Q">> -> 8
      [] OTHER -> 16

\* the codes Series.resample accepts: the five base keys and "1d"; it raises
\* ValueError (invalid frequency) on the yfinance spellings "1wk" and "1mo"
ResampleAccepts(code) ==
    code \in {<<"D">>, <<"W">>, <<"M">>, <<"Q">>, <<"A">>, <<"1", "d">>}

\* series.resample(code).last().ffill().dropna(): one row per period from
\* the first to the last period holding a row, valued by the last row of the
\* period, or of the nearest earlier period holding one
Resample(series, code) ==
    IF Len(series) = 0 THEN << >>
    ELSE LET P == PeriodDays(code)
             first == series[1][1] \div P
             last == series[Len(series)][1] \div P
             LastUpTo(b) ==
                 LET j == CHOOSE j \in 1..Len(series) :
                            /\ series[j][1] \div P <= b
                            /\ \A h \in 1..Len(series) : series[h][1] \div P <= b => h <= j
                 IN  series[j][2]
         IN  dropna(AsTuple([i \in 1..(last - first + 1) |->
                                <<first + i - 1, LastUpTo(first + i - 1)>>]))

(***************************************************************************)
(* State.                                                                  *)
(***************************************************************************)
VARIABLES
    \* the driver's inputs (sidebar) and the position of its script run
    identifiers, yf_interval, max_lags, pc,
    \* FASE 1: the download loop
    dl_idx, all_series_raw_and_freq, coarsest_freq_rank,
    final_correlation_frequency_code,
    \* history: the identifiers the provider was called for, those it
    \* answered with an error or without a series, the labels it reported for
    \* the series that were kept, the st.* notices issued
    provider_calls, provider_failures, inferred_seen, notices,
    \* FASE 2: the pair loop and its two result lists
    pair_idx, summary_data, graphical_results_list,
    \* one call of the correlation engine on its own
    series1, series2, eng_max_lags, eng_pc, eng_result,
    \* one call of the stationarity transform on its own: its result
    processed_series,
    \* one call of the data loader on its own
    ld_identifier, ld_price_type, ld_pc, ld_value

driver_vars ==
    <<identifiers, yf_interval, max_lags, pc, dl_idx, all_series_raw_and_freq,
      coarsest_freq_rank, final_correlation_frequency_code, provider_calls,
      provider_failures, inferred_seen, notices, pair_idx, summary_data,
      graphical_results_list>>

engine_vars ==
    <<series1, series2, eng_max_lags, eng_pc, eng_result, processed_series>>

loader_vars == <<ld_identifier, ld_price_type, ld_pc, ld_value>>

vars == <<driver_vars, engine_vars, loader_vars>>

\* the identifiers the user may type (one Yahoo ticker, one FRED series)
IdNames == {"SPY", "UNRATE"}

RECURSIVE SeqsUpTo(_, _)
SeqsUpTo(S, n) ==
    IF n = 0 THEN {<< >>}
    ELSE LET shorter == SeqsUpTo(S, n - 1)
         IN  shorter \cup {Append(q, x) : q \in shorter, x \in S}

\* the position in the script before the button is evaluated
DriverIdle ==
    /\ pc \in {"start", "off"}
    /\ dl_idx = 0
    /\ all_series_raw_and_freq = [id \in IdNames |-> NoSeries]
    /\ coarsest_freq_rank = -1
    /\ final_correlation_frequency_code = NoFreq
    /\ provider_calls = << >>
    /\ provider_failures = {}
    /\ inferred_seen = {}
    /\ notices = {}
    /\ pair_idx = 0
    /\ summary_data = << >>
    /\ graphical_results_list = << >>

EngineIdle ==
    /\ series1 = << >>
    /\ series2 = << >>
    /\ eng_max_lags = 1
    /\ eng_pc = "off"
    /\ eng_result = CorrFailure("None")
    /\ processed_series = << >>

LoaderIdle ==
    /\ ld_identifier = "None"
    /\ ld_price_type = "Close"
    /\ ld_pc = "off"
    /\ ld_value = << >>

Init ==
    /\ identifiers \in SeqsUpTo(IdNames, MaxIds)
    /\ yf_interval \in interval_options
    /\ max_lags \in 1..MaxLagBound
    /\ DriverIdle
    /\ pc = "start"
    /\ EngineIdle
    /\ LoaderIdle

(***************************************************************************)
(* The "Esegui Analisi" handler.                                           *)
(***************************************************************************)
\* a variant of the test below that lets a single identifier through
NoIdentifiers(ids) == Len(ids) < 1

\* if len(identifiers) < 2
TooFewIdentifiers(ids) == Len(ids) < 2

\* the usage warning, and nothing else
UsageError ==
    /\ pc = "start"
    /\ TooFewIdentifiers(identifiers)
    /\ notices' = notices \cup {"usage_warning"}
    /\ pc' = "done"
    /\ UNCHANGED <<identifiers, yf_interval, max_lags, dl_idx, all_series_raw_and_freq,
                   coarsest_freq_rank, final_correlation_frequency_code, provider_calls,
                   provider_failures, inferred_seen, pair_idx, summary_data,
                   graphical_results_list>>
    /\ UNCHANGED <<engine_vars, loader_vars>>

\* the else branch up to the download loop: the locals of FASE 1
BeginDownload ==
    /\ pc = "start"
    /\ ~TooFewIdentifiers(identifiers)
    /\ all_series_raw_and_freq' = [id \in IdNames |-> NoSeries]
    /\ coarsest_freq_rank' = -1
    /\ final_correlation_frequency_code' = yf_interval
    /\ notices' = notices \cup {"downloading_info"}
    /\ pc' = "download"
    /\ UNCHANGED <<identifiers, yf_interval, max_lags, dl_idx, provider_calls,
                   provider_failures, inferred_seen, pair_idx, summary_data,
                   graphical_results_list>>
    /\ UNCHANGED <<engine_vars, loader_vars>>

\* a variant of the tests below without the one on a missing series
DownloadFailsOnError(series_raw, error) == error # "None"

\* the two tests that end the run with st.stop()
DownloadFails(series_raw, error) == error # "None" \/ series_raw = NoSeries

\* base_freq_key of one series, with the fallback on failed inference
BaseFreqKey(inferred_freq, interval) ==
    IF get_base_freq_key(inferred_freq) = NoFreq
    THEN get_base_freq_key(interval)
    ELSE get_base_freq_key(inferred_freq)

\* a variant of the comparison below that keeps the finer of the two
IsFiner(current_freq_rank, rank) == current_freq_rank < rank

\* if current_freq_rank > coarsest_freq_rank
IsCoarser(current_freq_rank, rank) == current_freq_rank > rank

\* one iteration of the download loop, on the provider's answer
\* (series_raw, inferred_freq, error)
DownloadOne ==
    /\ pc = "download"
    /\ dl_idx < Len(identifiers)
    /\ \E series_raw \in RawCatalog \cup {NoSeries},
          inferred_freq \in InferredLabels,
          error \in {"None", "provider error"} :
        LET identifier == identifiers[dl_idx + 1]
            base_freq_key == BaseFreqKey(inferred_freq, yf_interval)
            current_freq_rank == freq_ranking_get(base_freq_key, -1)
        IN  /\ provider_calls' = Append(provider_calls, identifier)
            /\ provider_failures' =
                   IF error # "None" \/ series_raw = NoSeries
                   THEN provider_failures \cup {dl_idx + 1} ELSE provider_failures
            /\ IF DownloadFails(series_raw, error)
               THEN /\ notices' = notices \cup
                           {IF error # "None" THEN "download_error" ELSE "no_valid_data"}
                    /\ pc' = "stopped"
                    /\ UNCHANGED <<dl_idx, all_series_raw_and_freq, coarsest_freq_rank,
                                   final_correlation_frequency_code, inferred_seen>>
               ELSE /\ notices' = notices \cup
                           (IF get_base_freq_key(inferred_freq) = NoFreq
                            THEN {"inference_fallback_warning"} ELSE {})
                    /\ IF IsCoarser(current_freq_rank, coarsest_freq_rank)
                       THEN /\ coarsest_freq_rank' = current_freq_rank
                            /\ final_correlation_frequency_code' = base_freq_key
                       ELSE UNCHANGED <<coarsest_freq_rank, final_correlation_frequency_code>>
                    /\ all_series_raw_and_freq' =
                           [all_series_raw_and_freq EXCEPT ![identifier] = series_raw]
                    /\ inferred_seen' = inferred_seen \cup {inferred_freq}
                    /\ dl_idx' = dl_idx + 1
                    /\ pc' = "download"
    /\ UNCHANGED <<identifiers, yf_interval, max_lags, pair_idx, summary_data,
                   graphical_results_list>>
    /\ UNCHANGED <<engine_vars, loader_vars>>

\* the test that picks the warning over the plain notice of the frequency
CoarserThanRequested(rank, interval) ==
    rank > freq_ranking_get(get_base_freq_key(interval), 0)

\* between the two loops: the label of the final frequency and its notice
BeginPairs ==
    /\ pc = "download"
    /\ dl_idx = Len(identifiers)
    /\ notices' = notices \cup
           {IF CoarserThanRequested(coarsest_freq_rank, yf_interval)
            THEN "coarser_frequency_warning" ELSE "frequency_info"}
    /\ pc' = "pairs"
    /\ UNCHANGED <<identifiers, yf_interval, max_lags, dl_idx, all_series_raw_and_freq,
                   coarsest_freq_rank, final_correlation_frequency_code, provider_calls,
                   provider_failures, inferred_seen, pair_idx, summary_data,
                   graphical_results_list>>
    /\ UNCHANGED <<engine_vars, loader_vars>>

\* list(itertools.combinations(range(n), 2)): the position pairs <<i, j>>,
\* i < j, in lexicographic order
PositionPairs(n) == {pr \in (1..n) \X (1..n) : pr[1] < pr[2]}

NumPairs(n) == Cardinality(PositionPairs(n))

PairAt(k, n) ==
    CHOOSE pr \in PositionPairs(n) :
        Cardinality({q \in PositionPairs(n) :
                        q[1] < pr[1] \/ (q[1] = pr[1] /\ q[2] < pr[2])}) = k - 1

ErrInternal == "Errore interno: dati non disponibili"

ErrResampleEmpty == "Nessun dato comune dopo il resampling"

ErrAlignEmpty == "Nessun dato comune dopo il resampling e l'allineamento"

ErrCorrelation == "Errore calcolo correlazione"

\* the entry (id1, id2, error_msg, None, None) of graphical_results_list
ErrorEntry(id1, id2, msg, corr_error) ==
    [id1 |-> id1, id2 |-> id2,
     text |-> [kind |-> msg, corr_error |-> corr_error, leader |-> "None",
               follower |-> "None", periods |-> 0, max_corr_value |-> NaNCoef,
               best_lag |-> 0, frequency_label |-> "None"],
     fig_corr |-> << >>, fig_prices |-> << >>]

\* a variant of the text below with the two directions exchanged
TextSummaryExchanged(id1, id2, best_lag, max_corr_value, label) ==
    [kind |-> IF best_lag > 0 \/ best_lag < 0 THEN "anticipa" ELSE "contemporanei",
     corr_error |-> "None",
     leader |-> IF best_lag > 0 THEN id1 ELSE IF best_lag < 0 THEN id2 ELSE "None",
     follower |-> IF best_lag > 0 THEN id2 ELSE IF best_lag < 0 THEN id1 ELSE "None",
     periods |-> IF best_lag > 0 THEN best_lag ELSE IF best_lag < 0 THEN -best_lag ELSE 0,
     max_corr_value |-> max_corr_value, best_lag |-> best_lag,
     frequency_label |-> label]

\* text_summary_content: the best lag read as a lead/lag statement
TextSummary(id1, id2, best_lag, max_corr_value, label) ==
    [kind |-> IF best_lag > 0 \/ best_lag < 0 THEN "anticipa" ELSE "contemporanei",
     corr_error |-> "None",
     leader |-> IF best_lag > 0 THEN id2 ELSE IF best_lag < 0 THEN id1 ELSE "None",
     follower |-> IF best_lag > 0 THEN id1 ELSE IF best_lag < 0 THEN id2 ELSE "None",
     periods |-> IF best_lag > 0 THEN best_lag ELSE IF best_lag < 0 THEN -best_lag ELSE 0,
     max_corr_value |-> max_corr_value, best_lag |-> best_lag,
     frequency_label |-> label]

\* plot_cross_correlation: the stems drawn, one per lag whose entry is not NaN
plot_cross_correlation(lags, correlations) ==
    SelectSeq(AsTuple([i \in 1..Len(lags) |-> <<lags[i], correlations[i]>>]),
              LAMBDA pt : ~IsNaNCoef(pt[2]))

\* the data one iteration of the pair loop computes from the two raw series
PairData(series1_raw, series2_raw, code, lags_max) ==
    LET series1_resampled == Resample(RawRows(series1_raw), code)
        series2_resampled == Resample(RawRows(series2_raw), code)
        combined_resampled_data_df == AlignedData(series1_resampled, series2_resampled)
    IN  IF series1_raw = NoSeries \/ series2_raw = NoSeries
        THEN [step |-> "internal", combined |-> << >>, res |-> CorrFailure("None")]
        ELSE IF ~ResampleAccepts(code)
        THEN [step |-> "raised", combined |-> << >>, res |-> CorrFailure("None")]
        ELSE IF Len(series1_resampled) = 0 \/ Len(series2_resampled) = 0
        THEN [step |-> "resample_empty", combined |-> << >>, res |-> CorrFailure("None")]
        ELSE IF Len(combined_resampled_data_df) = 0
        THEN [step |-> "align_empty", combined |-> << >>, res |-> CorrFailure("None")]
        ELSE [step |-> "correlated", combined |-> combined_resampled_data_df,
              res |-> calculate_cross_correlation(series1_resampled, series2_resampled,
                                                  lags_max)]

\* what one iteration of the pair loop appends, given the data it computed:
\* <<summary rows, entries, raised>>
Appended(id1, id2, code, data) ==
    IF data.step = "internal"
    THEN << << >>, <<ErrorEntry(id1, id2, ErrInternal, "None")>>, FALSE >>
    ELSE IF data.step = "raised"
    THEN << << >>, << >>, TRUE >>
    ELSE IF data.step = "resample_empty"
    THEN << << >>, <<ErrorEntry(id1, id2, ErrResampleEmpty, "None")>>, FALSE >>
    ELSE IF data.step = "align_empty"
    THEN << << >>, <<ErrorEntry(id1, id2, ErrAlignEmpty, "None")>>, FALSE >>
    ELSE IF data.res.ok
    THEN << <<[id1 |-> id1, id2 |-> id2, max_corr_value |-> data.res.max_corr_value,
               best_lag |-> data.res.best_lag]>>,
            <<[id1 |-> id1, id2 |-> id2,
               text |-> TextSummary(id1, id2, data.res.best_lag, data.res.max_corr_value,
                                    freq_label_map_get(code)),
               fig_corr |-> plot_cross_correlation(data.res.lags_range,
                                                   data.res.cross_correlations),
               fig_prices |-> data.combined]>>,
            FALSE >>
    ELSE << << >>, <<ErrorEntry(id1, id2, ErrCorrelation, data.res.error)>>, FALSE >>

\* a variant of the iteration below in which a pair without a result ends
\* the loop instead of leaving an error entry
PairOutcomeAborting(id1, id2, series1_raw, series2_raw, code, lags_max) ==
    LET data == PairData(series1_raw, series2_raw, code, lags_max)
    IN  IF data.step = "correlated" /\ data.res.ok
        THEN Appended(id1, id2, code, data)
        ELSE << << >>, << >>, TRUE >>

\* one iteration of the pair loop on the two raw series
PairOutcome(id1, id2, series1_raw, series2_raw, code, lags_max) ==
    Appended(id1, id2, code, PairData(series1_raw, series2_raw, code, lags_max))

\* one iteration of the pair loop; an exception raised by resample ends the run
ProcessPair ==
    /\ pc = "pairs"
    /\ pair_idx < NumPairs(Len(identifiers))
    /\ LET pr == PairAt(pair_idx + 1, Len(identifiers))
           id1 == identifiers[pr[1]]
           id2 == identifiers[pr[2]]
       IN  \E out \in {PairOutcome(id1, id2, all_series_raw_and_freq[id1],
                                    all_series_raw_and_freq[id2],
                                    final_correlation_frequency_code, max_lags)} :
             IF out[3]
             THEN /\ pc' = "crashed"
                  /\ UNCHANGED <<pair_idx, summary_data, graphical_results_list>>
             ELSE /\ pc' = "pairs"
                  /\ pair_idx' = pair_idx + 1
                  /\ summary_data' = summary_data \o out[1]
                  /\ graphical_results_list' = graphical_results_list \o out[2]
    /\ UNCHANGED <<identifiers, yf_interval, max_lags, dl_idx, all_series_raw_and_freq,
                   coarsest_freq_rank, final_correlation_frequency_code, provider_calls,
                   provider_failures, inferred_seen, notices>>
    /\ UNCHANGED <<engine_vars, loader_vars>>

\* after the loop: st.success and the two tabs
Finish ==
    /\ pc = "pairs"
    /\ pair_idx = NumPairs(Len(identifiers))
    /\ notices' = notices \cup {"completed"}
    /\ pc' = "done"
    /\ UNCHANGED <<identifiers, yf_interval, max_lags, dl_idx, all_series_raw_and_freq,
                   coarsest_freq_rank, final_correlation_frequency_code, provider_calls,
                   provider_failures, inferred_seen, pair_idx, summary_data,
                   graphical_results_list>>
    /\ UNCHANGED <<engine_vars, loader_vars>>

Next ==
    \/ UsageError
    \/ BeginDownload
    \/ DownloadOne
    \/ BeginPairs
    \/ ProcessPair
    \/ Finish

Spec == Init /\ [][Next]_vars

(***************************************************************************)
(* The correlation engine on its own: one call of                          *)
(* calculate_cross_correlation on two resampled series.  A resampled       *)
(* series has one row per period from its first period on and no missing   *)
(* value (resample().last().ffill().dropna()).                             *)
(***************************************************************************)
\* the cell values and the first periods of the series drawn
EngineValues == {0, 1, 2}

EngineStarts == {0, 1}

ResampledSeries(starts) ==
    {RowsFrom(t0, 1, vals) : t0 \in starts, vals \in SeqsUpTo(EngineValues, MaxLen)}

\* two series of five rows, on which the lags next to 0 keep four pairs
LongerSeries == {SeriesDailyUp, SeriesDailyAlt}

InitCorr ==
    /\ identifiers = << >>
    /\ yf_interval = <<"1", "d">>
    /\ max_lags = 1
    /\ DriverIdle
    /\ pc = "off"
    /\ series1 \in ResampledSeries({0}) \cup LongerSeries
    /\ series2 \in ResampledSeries(EngineStarts) \cup LongerSeries
    /\ eng_max_lags \in 1..MaxEngineLag
    /\ eng_pc = "ready"
    /\ eng_result = CorrFailure("None")
    /\ processed_series = << >>
    /\ LoaderIdle

Correlate ==
    /\ eng_pc = "ready"
    /\ eng_result' = calculate_cross_correlation(series1, series2, eng_max_lags)
    /\ eng_pc' = "done"
    /\ UNCHANGED <<series1, series2, eng_max_lags, processed_series>>
    /\ UNCHANGED <<driver_vars, loader_vars>>

NextCorr == Correlate

SpecCorr == InitCorr /\ [][NextCorr]_vars

(***************************************************************************)
(* The stationarity transform on its own: one call of                      *)
(* preprocess_series_for_correlation on a series without missing values,   *)
(* on consecutive periods or on every second period.                       *)
(***************************************************************************)
\* the cell values and the spacings of the series drawn
PreValues == {0, 1, 2, 4}

PreSteps == {1, 2}

InitPre ==
    /\ identifiers = << >>
    /\ yf_interval = <<"1", "d">>
    /\ max_lags = 1
    /\ DriverIdle
    /\ pc = "off"
    /\ series1 \in {RowsFrom(0, step, vals) :
                        step \in PreSteps, vals \in SeqsUpTo(PreValues, MaxLen)}
    /\ series2 = << >>
    /\ eng_max_lags = 1
    /\ eng_pc = "raw"
    /\ eng_result = CorrFailure("None")
    /\ processed_series = << >>
    /\ LoaderIdle

Preprocess ==
    /\ eng_pc = "raw"
    /\ processed_series' = preprocess_series_for_correlation(series1)
    /\ eng_pc' = "processed"
    /\ UNCHANGED <<series1, series2, eng_max_lags, eng_result>>
    /\ UNCHANGED <<driver_vars, loader_vars>>

NextPre == Preprocess

SpecPre == InitPre /\ [][NextPre]_vars

(***************************************************************************)
(* The data loader on its own (src/data_loader.py), and the way the        *)
(* driver calls it.  A returned value is the tuple of the function's       *)
(* return statement; a series is "series" and None is "None".  DownloadOne *)
(* above takes the provider's answer as the triple its call site           *)
(* destructures; here the call is bound against the loader's signature.    *)
(***************************************************************************)
\* the FRED ids get_data_for_identifier routes to get_fred_data (a sample)
loader_fred_series_ids == {"UNRATE", "DGS10"}

\* the identifiers drawn: two FRED ids, a ticker, and CPILFESL, which the
\* driver lists as a FRED id and the loader does not
LoaderIdentifiers == {"UNRATE", "DGS10", "SPY", "CPILFESL"}

price_type_options == {"Close", "Open", "High", "Low"}

\* what yf.download may do: raise, give an empty frame, or a frame that has
\* or lacks the column asked for
YfOutcomes == {"raises", "empty", "no_column", "frame"}

\* what reading the FRED csv may do: raise a network error or another
\* exception, give several value columns, no row in the window, or rows
FredOutcomes == {"network_error", "raises", "many_columns", "empty_window", "rows"}

get_yfinance_data(ticker, outcome) ==
    CASE outcome = "raises" -> <<"None", "Errore durante il download da Yahoo Finance">>
      [] outcome = "empty" -> <<"None", "Impossibile scaricare i dati da Yahoo Finance">>
      [] outcome = "no_column" -> <<"None", "La colonna non e' disponibile">>
      [] OTHER -> <<"series", "None">>

get_fred_data(series_id, outcome) ==
    CASE outcome = "network_error" -> <<"None", "Errore di rete durante il download da FRED">>
      [] outcome = "raises" -> <<"None", "Errore durante l'elaborazione dei dati FRED">>
      [] outcome = "many_columns" -> <<"None", "Formato dati FRED inatteso">>
      [] outcome = "empty_window" -> <<"None", "Nessun dato FRED disponibile">>
      [] OTHER -> <<"series", "None">>

\* the body of get_data_for_identifier
get_data_for_identifier(identifier, yf_outcome, fred_outcome) ==
    IF identifier \in loader_fred_series_ids
    THEN get_fred_data(identifier, fred_outcome)
    ELSE get_yfinance_data(identifier, yf_outcome)

\* def get_data_for_identifier(identifier, start_date, end_date, yf_interval,
\* yf_price_type="Close"): the numbers of positional arguments it accepts
LoaderAcceptedArgs == {4, 5}

\* the call of app.py: identifier, two dates, yf_interval,
\* selected_price_type and fred_api_key
DriverPassedArgs ==
    <<"identifier", "start_date", "end_date", "yf_interval", "selected_price_type",
      "fred_api_key">>

\* series_raw, inferred_freq, error = ...: the targets of the assignment
DriverUnpackTargets == <<"series_raw", "inferred_freq", "error">>

InitLoader ==
    /\ identifiers = << >>
    /\ yf_interval \in interval_options
    /\ max_lags = 1
    /\ DriverIdle
    /\ pc = "off"
    /\ EngineIdle
    /\ ld_identifier \in LoaderIdentifiers
    /\ ld_price_type \in price_type_options
    /\ ld_pc = "ready"
    /\ ld_value = << >>

\* the driver's call: Python binds the positional arguments to the
\* parameters before the body runs and raises TypeError when they do not fit
DriverCall ==
    /\ ld_pc = "ready"
    /\ \E yf_outcome \in YfOutcomes, fred_outcome \in FredOutcomes :
        IF Len(DriverPassedArgs) \in LoaderAcceptedArgs
        THEN /\ ld_value' = get_data_for_identifier(ld_identifier, yf_outcome, fred_outcome)
             /\ ld_pc' = "returned"
        ELSE /\ ld_value' = << >>
             /\ ld_pc' = "raised TypeError"
    /\ UNCHANGED <<ld_identifier, ld_price_type>>
    /\ UNCHANGED <<driver_vars, engine_vars>>

\* a call with the arguments the signature declares
SignatureCall ==
    /\ ld_pc = "ready"
    /\ \E yf_outcome \in YfOutcomes, fred_outcome \in FredOutcomes :
        ld_value' = get_data_for_identifier(ld_identifier, yf_outcome, fred_outcome)
    /\ ld_pc' = "returned"
    /\ UNCHANGED <<ld_identifier, ld_price_type>>
    /\ UNCHANGED <<driver_vars, engine_vars>>

\* the driver's destructuring of a returned value
Unpack ==
    /\ ld_pc = "returned"
    /\ ld_pc' = IF Len(ld_value) = Len(DriverUnpackTargets)
                THEN "unpacked" ELSE "raised ValueError"
    /\ UNCHANGED <<ld_identifier, ld_price_type, ld_value>>
    /\ UNCHANGED <<driver_vars, engine_vars>>

NextLoader ==
    \/ DriverCall
    \/ SignatureCall
    \/ Unpack

SpecLoader == InitLoader /\ [][NextLoader]_vars

(***************************************************************************)
(* Properties of the handler (Spec).                                       *)
(***************************************************************************)
\* the handler went through the download loop, every series delivered
DownloadComplete ==
    /\ pc \in {"pairs", "done", "crashed"}
    /\ Len(identifiers) >= 2
    /\ dl_idx = Len(identifiers)

ErrorKinds == {ErrInternal, ErrResampleEmpty, ErrAlignEmpty, ErrCorrelation}

IsErrorEntry(entry) == entry.text.kind \in ErrorKinds

\* C1: if the provider answers with an error or without a series for one of
\* the identifiers, the run stops at that identifier: no later identifier is
\* asked for, no pair is resampled or correlated, and no per-pair outcome,
\* successful or not, is reported.
C1_FailFast ==
    (provider_failures # {}) =>
        /\ pc = "stopped"
        /\ provider_failures = {dl_idx + 1}
        /\ Len(provider_calls) = dl_idx + 1
        /\ notices \cap {"download_error", "no_valid_data"} # {}
        /\ "completed" \notin notices
        /\ pair_idx = 0
        /\ summary_data = << >>
        /\ graphical_results_list = << >>

\* the provider failed on an identifier after it had delivered another one
C1_Witness ==
    /\ provider_failures # {}
    /\ pc = "stopped"
    /\ dl_idx >= 1
    /\ Len(identifiers) > dl_idx + 1

\* the k-th pair of the iteration order has a result: its two series, and
\* nothing else, resample, align and correlate
PairHasResult(k) ==
    LET pr == PairAt(k, Len(identifiers))
        code == final_correlation_frequency_code
        series1_resampled ==
            Resample(RawRows(all_series_raw_and_freq[identifiers[pr[1]]]), code)
        series2_resampled ==
            Resample(RawRows(all_series_raw_and_freq[identifiers[pr[2]]]), code)
    IN  /\ ResampleAccepts(code)
        /\ Len(series1_resampled) > 0
        /\ Len(series2_resampled) > 0
        /\ Len(AlignedData(series1_resampled, series2_resampled)) > 0
        /\ calculate_cross_correlation(series1_resampled, series2_resampled,
                                       max_lags).ok

\* C2: after a download phase that succeeded, every pair processed has
\* exactly one outcome, in iteration order; the outcome of a pair is an
\* error outcome exactly when that pair has no result, whatever happened to
\* the pairs before it; every pair with a result has its row in the summary;
\* no failing pair ends the run, which reaches every pair.
C2_PerPairIsolation ==
    /\ (pc \in {"pairs", "done"}) =>
          /\ Len(graphical_results_list) = pair_idx
          /\ \A k \in 1..pair_idx :
                LET pr == PairAt(k, Len(identifiers))
                    entry == graphical_results_list[k]
                IN  /\ entry.id1 = identifiers[pr[1]]
                    /\ entry.id2 = identifiers[pr[2]]
                    /\ IsErrorEntry(entry) <=> ~PairHasResult(k)
          /\ Len(summary_data) = Cardinality({k \in 1..pair_idx : PairHasResult(k)})
    /\ (pc = "done") => pair_idx = NumPairs(Len(identifiers))
    /\ (pc = "crashed") => ~ResampleAccepts(final_correlation_frequency_code)

\* a finished run of three pairs: the first and the last failed, the one
\* between them was reported with its result
C2_Witness ==
    /\ pc = "done"
    /\ pair_idx = 3
    /\ IsErrorEntry(graphical_results_list[1])
    /\ ~IsErrorEntry(graphical_results_list[2])
    /\ IsErrorEntry(graphical_results_list[3])
    /\ Len(summary_data) = 1

\* the unordered pairs of the identifiers requested
RequestedPairs ==
    {p \in SUBSET {identifiers[i] : i \in 1..Len(identifiers)} : Cardinality(p) = 2}

\* the outcomes reported for an unordered pair, and its rows in the summary
OutcomesOf(p) ==
    {k \in 1..Len(graphical_results_list) :
        {graphical_results_list[k].id1, graphical_results_list[k].id2} = p}

SummaryRowsOf(p) ==
    {k \in 1..Len(summary_data) : {summary_data[k].id1, summary_data[k].id2} = p}

\* every unordered pair of the identifiers has exactly one outcome, the
\* outcomes follow the order of the identifier list, an outcome is either
\* an error entry without a summary row or a result with exactly one row
PairsProcessedOnce ==
    /\ pair_idx = NumPairs(Len(identifiers))
    /\ \A k \in 1..Len(graphical_results_list) :
          LET pr == PairAt(k, Len(identifiers))
              entry == graphical_results_list[k]
          IN  /\ entry.id1 = identifiers[pr[1]]
              /\ entry.id2 = identifiers[pr[2]]
              /\ {entry.id1, entry.id2} \in RequestedPairs
    /\ \A p \in RequestedPairs :
          /\ Cardinality(OutcomesOf(p)) = 1
          /\ \A k \in OutcomesOf(p) :
                IF IsErrorEntry(graphical_results_list[k])
                THEN SummaryRowsOf(p) = {}
                ELSE /\ Cardinality(SummaryRowsOf(p)) = 1
                     /\ graphical_results_list[k].fig_corr # << >>
    /\ \A r \in 1..Len(summary_data) :
          \E k \in 1..Len(graphical_results_list) :
              /\ ~IsErrorEntry(graphical_results_list[k])
              /\ graphical_results_list[k].id1 = summary_data[r].id1
              /\ graphical_results_list[k].id2 = summary_data[r].id2

\* the request went through the download loop and the pair loop to its end
RequestCompleted == DownloadComplete /\ pc = "done"

\* C21, as stated: after a request whose download phase succeeded has run
\* to completion, every unordered pair of the requested identifiers has
\* been processed exactly once, in the order of the identifier list, with
\* exactly one outcome: a summary row and a graphical result, or an error
\* entry and no summary row; no row of the summary is for a failed pair.
C21_EveryPairOnce == RequestCompleted => PairsProcessedOnce

\* the same for the requests that name no identifier twice
IdentifiersDistinct ==
    \A i, j \in 1..Len(identifiers) : identifiers[i] = identifiers[j] => i = j

PairsOnceWhenDistinct ==
    (RequestCompleted /\ IdentifiersDistinct) => PairsProcessedOnce

\* a completed request that names no identifier twice
DistinctRequestCompleted == RequestCompleted /\ IdentifiersDistinct

\* C3: with fewer than two identifiers the run ends with the usage warning
\* alone: the provider is called for no identifier and nothing is computed.
C3_UsageErrorFirst ==
    (Len(identifiers) < 2) =>
        /\ provider_calls = << >>
        /\ pc \in {"start", "done"}
        /\ (pc = "done") => notices = {"usage_warning"}
        /\ dl_idx = 0
        /\ pair_idx = 0
        /\ summary_data = << >>
        /\ graphical_results_list = << >>

\* a run with one identifier, ended
C3_Witness ==
    /\ Len(identifiers) = 1
    /\ pc = "done"
    /\ "usage_warning" \in notices

\* the frequency class a label of pandas.infer_freq stands for, as a rank
\* from the finest (0, daily) to the coarsest (4, yearly); -1: no class
NativeClassRank(label) ==
    CASE label \in {FreqD, FreqB} -> 0
      [] label = FreqW -> 1
      [] label \in {FreqM, FreqMS} -> 2
      [] label = FreqQ -> 3
      [] label = FreqA -> 4
      [] OTHER -> -1

\* the class of the frequency the user asked for
PreferredClassRank(interval) ==
    CASE interval = <<"1", "d">> -> 0
      [] interval = <<"1", "w", "k">> -> 1
      [] interval = <<"1", "m", "o">> -> 2

\* the class of the target frequency: of a base code, or of the interval
\* the code was initialised with
TargetClassRank(code) ==
    CASE code = <<"D">> -> 0
      [] code = <<"W">> -> 1
      [] code = <<"M">> -> 2
      [] code = <<"Q">> -> 3
      [] code = <<"A">> -> 4
      [] OTHER -> PreferredClassRank(code)

\* the coarsest class among the labels of the series downloaded
CoarsestInferredRank ==
    CHOOSE r \in {-1} \cup {NativeClassRank(l) : l \in inferred_seen} :
        \A l \in inferred_seen : NativeClassRank(l) <= r

C5_NeverFinerThanPreferred ==
    DownloadComplete =>
        TargetClassRank(final_correlation_frequency_code) >= PreferredClassRank(yf_interval)

\* C6, as stated: a series whose frequency could not be inferred counts as
\* a series of the frequency the user asked for, so that the target is at
\* least as coarse as that frequency.
C6_FallbackToPreferred ==
    (DownloadComplete /\ NoFreq \in inferred_seen) =>
        TargetClassRank(final_correlation_frequency_code) >= PreferredClassRank(yf_interval)

\* the label of the final frequency has been announced, one way or the other
FrequencyAnnounced ==
    "coarser_frequency_warning" \in notices \/ "frequency_info" \in notices

\* C19, as stated: the announcement says that a coarser frequency was
\* detected exactly when the target frequency is coarser than the frequency
\* the user asked for; when the target is equal to it or finer, the
\* announcement only reports the frequency of the analysis.
C19_CoarserWarningExact ==
    FrequencyAnnounced =>
        /\ "coarser_frequency_warning" \in notices <=>
               TargetClassRank(final_correlation_frequency_code) >
                   PreferredClassRank(yf_interval)
        /\ "frequency_info" \in notices <=>
               TargetClassRank(final_correlation_frequency_code) <=
                   PreferredClassRank(yf_interval)

\* what the engine returns for the k-th pair of the iteration order
PairResult(k) ==
    LET pr == PairAt(k, Len(identifiers))
        code == final_correlation_frequency_code
    IN  calculate_cross_correlation(
            Resample(RawRows(all_series_raw_and_freq[identifiers[pr[1]]]), code),
            Resample(RawRows(all_series_raw_and_freq[identifiers[pr[2]]]), code),
            max_lags)

\* the number of outcomes with a result among the first k
ResultsUpTo(k) ==
    Cardinality({j \in 1..k : ~IsErrorEntry(graphical_results_list[j])})

\* C17: for every pair reported with a result (A the first identifier, B
\* the second) the text and the summary row carry the lag and the
\* coefficient the engine returned; a positive lag reads "B leads A by lag
\* periods", a negative one "A leads B by |lag| periods", lag 0 reads as
\* contemporaneous.
C17_Interpretation ==
    (pc \in {"pairs", "done"}) =>
        \A k \in 1..Len(graphical_results_list) :
            LET entry == graphical_results_list[k]
                text == entry.text
                res == PairResult(k)
                row == summary_data[ResultsUpTo(k)]
            IN  ~IsErrorEntry(entry) =>
                  /\ text.best_lag = res.best_lag
                  /\ text.max_corr_value = res.max_corr_value
                  /\ row = [id1 |-> entry.id1, id2 |-> entry.id2,
                            max_corr_value |-> res.max_corr_value,
                            best_lag |-> res.best_lag]
                  /\ (res.best_lag > 0) =>
                        /\ text.kind = "anticipa"
                        /\ text.leader = entry.id2 /\ text.follower = entry.id1
                        /\ text.periods = res.best_lag
                  /\ (res.best_lag < 0) =>
                        /\ text.kind = "anticipa"
                        /\ text.leader = entry.id1 /\ text.follower = entry.id2
                        /\ text.periods = -res.best_lag
                  /\ (res.best_lag = 0) =>
                        /\ text.kind = "contemporanei"
                        /\ text.leader = "None" /\ text.follower = "None"

\* a finished run that reported a negative, a zero and a positive best lag
C17_Witness ==
    /\ pc = "done"
    /\ Len(summary_data) = 3
    /\ summary_data[1].best_lag < 0
    /\ summary_data[2].best_lag = 0
    /\ summary_data[3].best_lag > 0
    /\ graphical_results_list[1].text.leader = identifiers[1]
    /\ graphical_results_list[3].text.leader = identifiers[1]

(***************************************************************************)
(* Properties of the provider call (SpecLoader).                           *)
(***************************************************************************)
\* C7, as stated: for every identifier and either route the call the driver
\* makes returns, and the value returned is a triple (series, inferred
\* frequency, error) that the driver can take apart.
C7_ProviderShape ==
    /\ ld_pc \notin {"raised TypeError", "raised ValueError"}
    /\ (ld_pc \in {"returned", "unpacked"}) => Len(ld_value) = Len(DriverUnpackTargets)

(***************************************************************************)
(* Properties of the correlation engine (SpecCorr).                        *)
(***************************************************************************)
EngineDone == eng_pc = "done" /\ eng_result.ok

\* |a| = |b| for two defined coefficients
AbsEqual(a, b) == CmpFrac(a[2], a[3], b[2], b[3]) = 0

\* the positions of a profile whose entry is defined and of largest magnitude
MaxAbsPositions(cc) ==
    {i \in 1..Len(cc) :
        /\ ~IsNaNCoef(cc[i])
        /\ \A j \in 1..Len(cc) : ~IsNaNCoef(cc[j]) => ~AbsLess(cc[i], cc[j])}

\* the position of lag 0 in a profile over [-max_lags, max_lags]
ZeroPos(lags_max) == lags_max + 1

\* C8: when several lags have the same largest absolute coefficient, the
\* best lag returned is the smallest of them (the first one in the scan
\* from -max_lags to +max_lags), and the coefficient returned is its entry.
C8_TieBreakFirst ==
    EngineDone =>
        LET cc == eng_result.cross_correlations
            lags == eng_result.lags_range
        IN  /\ \E i \in MaxAbsPositions(cc) : eng_result.best_lag = lags[i]
            /\ \A i \in MaxAbsPositions(cc) : eng_result.best_lag <= lags[i]
            /\ eng_result.max_corr_value = cc[eng_result.best_lag + ZeroPos(eng_max_lags)]

\* a call that succeeded with at least two lags tied for the largest magnitude
C8_Witness ==
    /\ EngineDone
    /\ Cardinality(MaxAbsPositions(eng_result.cross_correlations)) >= 2

\* C9, as stated: a series correlated against itself has coefficient 1 at
\* lag 0 and lag 0 is selected as the best lag.
C9_SelfBestIsZero ==
    (EngineDone /\ series1 = series2) =>
        /\ eng_result.cross_correlations[ZeroPos(eng_max_lags)] = OneCoef
        /\ eng_result.best_lag = 0

\* C9, amended: a series correlated against itself has coefficient 1 at lag
\* 0 and the best coefficient has magnitude 1; the best lag is the smallest
\* lag whose coefficient has magnitude 1, so it is never positive and it is
\* 0 exactly when no negative lag reaches magnitude 1.
C9_SelfBestIsFirstUnit ==
    (EngineDone /\ series1 = series2) =>
        LET cc == eng_result.cross_correlations
            zero == ZeroPos(eng_max_lags)
            UnitBefore == {i \in 1..(zero - 1) : ~IsNaNCoef(cc[i]) /\ AbsEqual(cc[i], OneCoef)}
        IN  /\ cc[zero] = OneCoef
            /\ AbsEqual(eng_result.max_corr_value, OneCoef)
            /\ eng_result.best_lag <= 0
            /\ (eng_result.best_lag = 0 <=> UnitBefore = {})
            /\ \A i \in UnitBefore : eng_result.best_lag <= eng_result.lags_range[i]

\* a series correlated against itself with a negative lag of magnitude 1
C9_Witness ==
    /\ EngineDone
    /\ series1 = series2
    /\ eng_result.best_lag < 0

\* the call with the two series exchanged
Reversed == calculate_cross_correlation(series2, series1, eng_max_lags)

\* C10, as stated: when both calls succeed, the best lag of (A, B) is minus
\* the best lag of (B, A) and the two best coefficients have equal magnitude.
C10_Symmetry ==
    (EngineDone /\ Reversed.ok) =>
        /\ eng_result.best_lag = -Reversed.best_lag
        /\ AbsEqual(eng_result.max_corr_value, Reversed.max_corr_value)

\* C10, amended: the two calls succeed together, the profile of (B, A) is
\* the profile of (A, B) read backwards, the two best coefficients have
\* equal magnitude, and the best lag of (B, A) is minus the LARGEST lag of
\* (A, B) that attains that magnitude: the two best lags are opposite
\* exactly when one lag alone attains it or the extreme lags are opposite.
C10_MirrorSymmetry ==
    (eng_pc = "done") =>
        /\ eng_result.ok = Reversed.ok
        /\ eng_result.ok =>
            LET cc == eng_result.cross_correlations
                n == Len(cc)
                last == CHOOSE i \in MaxAbsPositions(cc) :
                            \A j \in MaxAbsPositions(cc) : j <= i
            IN  /\ \A i \in 1..n : Reversed.cross_correlations[i] = cc[n + 1 - i]
                /\ AbsEqual(eng_result.max_corr_value, Reversed.max_corr_value)
                /\ Reversed.best_lag = -eng_result.lags_range[last]

\* two different series whose profiles tie, so that the best lags of the two
\* calls are not opposite
C10_Witness ==
    /\ EngineDone
    /\ series1 # series2
    /\ Cardinality(MaxAbsPositions(eng_result.cross_correlations)) >= 2
    /\ eng_result.best_lag # -Reversed.best_lag

\* the aligned pair of the two stationarized series of the call
ProcessedPair ==
    AlignedData(preprocess_series_for_correlation(series1),
                preprocess_series_for_correlation(series2))

\* the number of paired observations left at a lag: the rows of the aligned
\* pair less the |lag| rows the shift pushes out
PairedObservations(lag) ==
    IF Abs(lag) >= Len(ProcessedPair) THEN 0 ELSE Len(ProcessedPair) - Abs(lag)

\* C11: the profile has one entry per lag of [-max_lags, max_lags]; an
\* entry is defined only when at least max_lags paired observations remain
\* at its lag, and is undefined whenever fewer remain.
C11_MinimumOverlap ==
    EngineDone =>
        LET cc == eng_result.cross_correlations
            lags == eng_result.lags_range
        IN  /\ Len(cc) = 2 * eng_max_lags + 1
            /\ Len(lags) = Len(cc)
            /\ \A i \in 1..Len(cc) :
                  /\ lags[i] = i - eng_max_lags - 1
                  /\ ~IsNaNCoef(cc[i]) => PairedObservations(lags[i]) >= eng_max_lags
                  /\ PairedObservations(lags[i]) < eng_max_lags => IsNaNCoef(cc[i])

\* a call with max_lags 3 that succeeded although the lags next to 0 keep
\* only two paired observations: their entries are undefined
C11_Witness ==
    /\ EngineDone
    /\ eng_max_lags = 3
    /\ PairedObservations(1) = 2
    /\ IsNaNCoef(eng_result.cross_correlations[ZeroPos(eng_max_lags) + 1])
    /\ ~IsNaNCoef(eng_result.cross_correlations[ZeroPos(eng_max_lags)])

\* the lag loop takes, at this lag, the branch that calls Series.corr
CoefficientComputed(lag) ==
    EnoughOverlap(TempDf(ProcessedPair, lag), eng_max_lags)

\* C20, as stated: the coefficient of a lag is computed only when at least
\* 2 paired observations remain after the shift, for every max_lags from 1.
C20_ComputedOnTwoPairs ==
    EngineDone =>
        \A lag \in (-eng_max_lags)..eng_max_lags :
            CoefficientComputed(lag) => PairedObservations(lag) >= 2

\* what the call on fewer than 2 pairs yields: no entry of a profile is
\* defined at a lag with fewer than 2 paired observations
DefinedOnTwoPairs ==
    EngineDone =>
        \A i \in 1..Len(eng_result.cross_correlations) :
            ~IsNaNCoef(eng_result.cross_correlations[i]) =>
                PairedObservations(eng_result.lags_range[i]) >= 2

\* every lag of [-max_lags, max_lags] is undefined for the aligned pair
AllLagsUndefined ==
    \A lag \in (-eng_max_lags)..eng_max_lags :
        IsNaNCoef(CorrAtLag(ProcessedPair, lag, eng_max_lags))

NoProfile(res) ==
    /\ ~res.ok
    /\ res.lags_range = << >>
    /\ res.cross_correlations = << >>

\* C12, as stated: the call fails with the no-valid-correlation error,
\* without a profile or a best lag, exactly when every lag is undefined.
C12_NoValidExactly ==
    (eng_pc = "done") =>
        ((NoProfile(eng_result) /\ eng_result.error = ErrNoValid) <=> AllLagsUndefined)

\* C12, amended: the call fails, without a profile or a best lag, exactly
\* when every lag is undefined; the error is the no-valid-correlation one
\* exactly when, in addition, the aligned pair is not empty (so whenever
\* the aligned pair has between 1 and max_lags - 1 rows); with an empty
\* stationarized series or an empty aligned pair the call fails before the
\* lag loop with the insufficient-data or the no-common-data error.
C12_NoValidWhenAligned ==
    (eng_pc = "done") =>
        /\ eng_result.ok <=> ~AllLagsUndefined
        /\ ~eng_result.ok => NoProfile(eng_result)
        /\ (eng_result.error = ErrNoValid) <=>
              (AllLagsUndefined /\ Len(ProcessedPair) > 0)
        /\ (Len(ProcessedPair) = 0) => eng_result.error \in {ErrInsufficient, ErrNoCommon}
        /\ (Len(ProcessedPair) > 0 /\ Len(ProcessedPair) < eng_max_lags) =>
              eng_result.error = ErrNoValid

\* a call that failed with the no-valid-correlation error on an aligned
\* pair shorter than max_lags
C12_Witness ==
    /\ eng_pc = "done"
    /\ eng_result.error = ErrNoValid
    /\ Len(ProcessedPair) = 2
    /\ eng_max_lags = 3

\* C13: on success the best lag is a lag of the profile whose entry is
\* defined, the coefficient returned is that entry, and no defined entry
\* has a larger absolute value; undefined entries are passed over, also
\* when they come first in the scan or when the largest magnitude is 0.
C13_BestIsDefinedMax ==
    EngineDone =>
        LET cc == eng_result.cross_correlations
            lags == eng_result.lags_range
        IN  \E i \in 1..Len(cc) :
              /\ lags[i] = eng_result.best_lag
              /\ ~IsNaNCoef(cc[i])
              /\ eng_result.max_corr_value = cc[i]
              /\ \A j \in 1..Len(cc) :
                    ~IsNaNCoef(cc[j]) => ~AbsLess(eng_result.max_corr_value, cc[j])

\* a successful call whose profile starts with an undefined entry and whose
\* defined entries are all 0: an undefined entry read as 0 would win
C13_Witness ==
    /\ EngineDone
    /\ IsNaNCoef(eng_result.cross_correlations[1])
    /\ eng_result.max_corr_value = <<0, 0, 1>>

\* the Pearson coefficient over the pairs (A[t], B[t - k]) for a lag k >= 0
\* and (A[t - |k|], B[t]) for k < 0, t over the positions of the aligned
\* pair at which both members exist
ConventionCoefficient(lag) ==
    LET k == Abs(lag)
        Positions == {t \in 1..Len(ProcessedPair) : t - k >= 1}
        first == Len(ProcessedPair) - Cardinality(Positions)
        A(t) == ProcessedPair[t][2]
        B(t) == ProcessedPair[t][3]
    IN  corr(AsTuple([j \in 1..Cardinality(Positions) |->
                         IF lag >= 0 THEN A(first + j) ELSE A(first + j - k)]),
             AsTuple([j \in 1..Cardinality(Positions) |->
                         IF lag >= 0 THEN B(first + j - k) ELSE B(first + j)]))

\* C18: every defined entry of the profile is the coefficient of the lag
\* convention at its lag, positive lags pairing A with the earlier B and
\* negative lags the earlier A with B; the entry at lag 0 is the
\* coefficient of the aligned pair as it stands.
C18_LagConvention ==
    EngineDone =>
        LET cc == eng_result.cross_correlations
            lags == eng_result.lags_range
        IN  /\ \A i \in 1..Len(cc) :
                  ~IsNaNCoef(cc[i]) => cc[i] = ConventionCoefficient(lags[i])
            /\ PairedObservations(0) >= eng_max_lags =>
                  cc[ZeroPos(eng_max_lags)] =
                      corr(AsTuple([t \in 1..Len(ProcessedPair) |-> ProcessedPair[t][2]]),
                           AsTuple([t \in 1..Len(ProcessedPair) |-> ProcessedPair[t][3]]))

\* a profile whose entries at lag -1 and lag 1 are defined and differ in
\* magnitude: the direction of the shift shows
C18_Witness ==
    /\ EngineDone
    /\ ~IsNaNCoef(eng_result.cross_correlations[ZeroPos(eng_max_lags) - 1])
    /\ ~IsNaNCoef(eng_result.cross_correlations[ZeroPos(eng_max_lags) + 1])
    /\ ~AbsEqual(eng_result.cross_correlations[ZeroPos(eng_max_lags) - 1],
                 eng_result.cross_correlations[ZeroPos(eng_max_lags) + 1])

(***************************************************************************)
(* Properties of the stationarity transform (SpecPre).                     *)
(***************************************************************************)
PreDone == eng_pc = "processed"

\* C14, as stated: the stationarized series of a series S has len(S) - 1
\* rows and none of them is undefined: no missing value and no result of
\* a division by zero.
C14_LengthAndDefined ==
    (PreDone /\ Len(series1) >= 1) =>
        /\ Len(processed_series) = Len(series1) - 1
        /\ \A i \in 1..Len(processed_series) :
              ~IsNaN(processed_series[i][2]) /\ ~IsInf(processed_series[i][2])

\* the source holds a zero that is the denominator of a percent change
ZeroDenominator(s) == \E i \in 1..(Len(s) - 1) : s[i][2] = <<0, 1>>

AllEqual(s) == \A i \in 1..Len(s) : s[i][2] = s[1][2]

\* the first difference of a series of integer cells: one row per row but
\* the first, at that row's timestamp
FirstDifference(s) ==
    AsTuple([i \in 1..(Len(s) - 1) |->
                <<s[i + 1][1], <<s[i + 1][2][1] - s[i][2][1], 1>>>>])

\* C15, as stated: the result is the first difference of the source whenever
\* every percent change is zero (a constant source) or the source holds a
\* zero used as the denominator of a percent change.
C15_FallbackOnDegenerate ==
    (PreDone /\ Len(series1) >= 2 /\ (AllEqual(series1) \/ ZeroDenominator(series1))) =>
        processed_series = FirstDifference(series1)

\* the percent change between consecutive integer cells prev > 0 and cur
PercentChange(prev, cur) == Rat(cur[1] - prev[1], prev[1])

StrictlyPositive(s) == \A i \in 1..Len(s) : s[i][2][1] > 0

\* C16: for a source of at least two strictly positive values that are
\* not all equal the result is, row for row, the percent change between
\* consecutive observations (and not the first difference).
C16_PercentChangeOnPositive ==
    (PreDone /\ Len(series1) >= 2 /\ StrictlyPositive(series1) /\ ~AllEqual(series1)) =>
        /\ Len(processed_series) = Len(series1) - 1
        /\ \A i \in 1..Len(processed_series) :
              processed_series[i] =
                  <<series1[i + 1][1], PercentChange(series1[i][2], series1[i + 1][2])>>

\* the source 1, 2, 4 grows by 100 percent at each step: the result is that
\* constant twice, where the first difference is 1, 2
C16_Witness ==
    /\ PreDone
    /\ Len(series1) = 3
    /\ series1[1][2] = <<1, 1>> /\ series1[2][2] = <<2, 1>> /\ series1[3][2] = <<4, 1>>
    /\ Len(processed_series) = 2
    /\ processed_series[1][2] = <<1, 1>> /\ processed_series[2][2] = <<1, 1>>

====
